---- MODULE Spec2Model ----
(***************************************************************************)
(* BugDB: a single fixed-schema table stored in a paged file (src/main.rs) *)
(* with the Value/Row types of src/sql_parser.rs.                          *)
(*                                                                         *)
(* A byte vector (Vec<u8>, the file's contents, a String's bytes) is kept  *)
(* run-length encoded: a sequence of runs <<byte, count>> with count > 0   *)
(* and no two neighbouring runs of the same byte.  Every vector has one    *)
(* such encoding, so equality of encodings is equality of byte vectors.    *)
(***************************************************************************)
EXTENDS Integers, Sequences, FiniteSets, TLC

PAGE_SIZE == 4096

TABLE_MAX_PAGES == 100

\* std::mem::size_of::<Value>() for enum Value { Integer(i64), Text(String) }
\* on a 64-bit target (the String's niche holds the discriminant).
SizeOfValue == 24

\* main(): the schema of the one table.
Columns == <<"id", "username", "email">>

-----------------------------------------------------------------------------
(* Byte vectors *)

Min(a, b) == IF a <= b THEN a ELSE b

\* vec![0; n]
Zeros(n) == IF n = 0 THEN <<>> ELSE << <<0, n>> >>

\* n copies of byte b
Rep(b, n) == IF n = 0 THEN <<>> ELSE << <<b, n>> >>

RECURSIVE BLenFrom(_, _)
BLenFrom(buf, k) ==
    IF k > Len(buf) THEN 0 ELSE buf[k][2] + BLenFrom(buf, k + 1)

\* Vec::len
BLen(buf) == BLenFrom(buf, 1)

\* a followed by b (extend_from_slice)
Cat(a, b) ==
    IF a = <<>> THEN b
    ELSE IF b = <<>> THEN a
    ELSE IF a[Len(a)][1] = b[1][1]
         THEN SubSeq(a, 1, Len(a) - 1)
              \o << <<b[1][1], a[Len(a)][2] + b[1][2]>> >>
              \o SubSeq(b, 2, Len(b))
         ELSE a \o b

RECURSIVE TakeFrom(_, _, _)
TakeFrom(buf, k, n) ==
    IF n = 0 \/ k > Len(buf) THEN <<>>
    ELSE IF buf[k][2] <= n
         THEN <<buf[k]>> \o TakeFrom(buf, k + 1, n - buf[k][2])
         ELSE << <<buf[k][1], n>> >>

\* &buf[..n], for n <= buf.len()
Take(buf, n) == TakeFrom(buf, 1, n)

RECURSIVE DropFrom(_, _, _)
DropFrom(buf, k, n) ==
    IF k > Len(buf) THEN <<>>
    ELSE IF n = 0 THEN SubSeq(buf, k, Len(buf))
    ELSE IF buf[k][2] <= n THEN DropFrom(buf, k + 1, n - buf[k][2])
    ELSE << <<buf[k][1], buf[k][2] - n>> >> \o SubSeq(buf, k + 1, Len(buf))

\* &buf[n..], for n <= buf.len()
Drop(buf, n) == DropFrom(buf, 1, n)

\* &buf[from..to]
Slice(buf, from, to) == Take(Drop(buf, from), to - from)

RECURSIVE ByteFrom(_, _, _)
ByteFrom(buf, k, i) ==
    IF i < buf[k][2] THEN buf[k][1] ELSE ByteFrom(buf, k + 1, i - buf[k][2])

\* buf[i], for i < buf.len()
ByteAt(buf, i) == ByteFrom(buf, 1, i)

\* the n bytes buf[off], ..., buf[off + n - 1] as a tuple
BytesAt(buf, off, n) == [i \in 1..n |-> ByteAt(buf, off + i - 1)]

RECURSIVE FromBytesFrom(_, _)
FromBytesFrom(bytes, k) ==
    IF k > Len(bytes) THEN <<>>
    ELSE Cat(<< <<bytes[k], 1>> >>, FromBytesFrom(bytes, k + 1))

\* the byte vector holding the bytes of a tuple
FromBytes(bytes) == FromBytesFrom(bytes, 1)

\* Vec::resize(n, 0): grow with zeros, or cut
Resize(buf, n) ==
    IF n <= BLen(buf) THEN Take(buf, n) ELSE Cat(buf, Zeros(n - BLen(buf)))

\* dst[off .. off + data.len()].copy_from_slice(data), for a range inside dst
CopyInto(dst, off, data) ==
    Cat(Cat(Take(dst, off), data), Drop(dst, off + BLen(data)))

\* seek(Start(pos)) and write_all(data) on a file: bytes between the old end
\* of the file and pos read as zero, bytes after the written range are kept.
FileWrite(f, pos, data) ==
    LET base == IF pos > BLen(f) THEN Cat(f, Zeros(pos - BLen(f))) ELSE f
        end  == pos + BLen(data)
    IN  Cat(Cat(Take(base, pos), data), Drop(base, Min(end, BLen(base))))

\* seek(Start(pos)) and read(&mut page[..]) with a PAGE_SIZE buffer: the bytes
\* of the file from pos, at most n of them.
FileRead(f, pos, n) == Take(Drop(f, pos), n)

-----------------------------------------------------------------------------
(* sql_parser.rs: Value and Row; the row codec of Table *)

\* An i64 is kept as its four 16-bit limbs, least significant first (two's
\* complement), so that every 8-byte pattern read back from a page is a value.
I64(n) ==
    <<n % 65536,
      (n \div 65536) % 65536,
      IF n < 0 THEN 65535 ELSE 0,
      IF n < 0 THEN 65535 ELSE 0>>

\* i64::to_le_bytes
i64_to_le_bytes(i) ==
    <<i[1] % 256, i[1] \div 256, i[2] % 256, i[2] \div 256,
      i[3] % 256, i[3] \div 256, i[4] % 256, i[4] \div 256>>

\* i64::from_le_bytes
i64_from_le_bytes(b) ==
    <<b[1] + 256 * b[2], b[3] + 256 * b[4], b[5] + 256 * b[6], b[7] + 256 * b[8]>>

\* (len as u32).to_le_bytes()
u32_to_le_bytes(n) ==
    <<n % 256, (n \div 256) % 256, (n \div 65536) % 256, (n \div 16777216) % 256>>

\* u32::from_le_bytes(..) as usize, for b[4] < 128
u32_from_le_bytes(b) == b[1] + 256 * b[2] + 65536 * b[3] + 16777216 * b[4]

\* Value::Integer(i)
Integer(i) == [tag |-> "Integer", i |-> i, s |-> <<>>]

\* Value::Text(s), s the string's UTF-8 bytes
Text(s) == [tag |-> "Text", i |-> I64(0), s |-> s]

\* U+FFFD REPLACEMENT CHARACTER in UTF-8
ReplacementChar == <<239, 191, 189>>

RECURSIVE RepeatBytes(_, _)
RepeatBytes(bytes, n) ==
    IF n = 0 THEN <<>> ELSE Cat(FromBytes(bytes), RepeatBytes(bytes, n - 1))

RECURSIVE Utf8LossyFrom(_, _)
Utf8LossyFrom(buf, k) ==
    IF k > Len(buf) THEN <<>>
    ELSE Cat(IF buf[k][1] < 128 THEN <<buf[k]>>
             ELSE RepeatBytes(ReplacementChar, buf[k][2]),
             Utf8LossyFrom(buf, k + 1))

\* String::from_utf8_lossy(..).to_string(): ASCII bytes are kept; a byte that
\* cannot stand in UTF-8 becomes U+FFFD.  The bytes of the model are ASCII
\* text, small length prefixes, and the 0x00 / 0xFF bytes of integers, for
\* which every byte >= 0x80 is such a byte.
from_utf8_lossy(buf) == Utf8LossyFrom(buf, 1)

\* Table::row_size
row_size(columns) == Len(columns) * SizeOfValue

\* serialize_row's match on row.values.get(column)
SerializeColumn(row, column) ==
    IF column \notin DOMAIN row THEN Zeros(8)
    ELSE IF row[column].tag = "Integer"
         THEN FromBytes(i64_to_le_bytes(row[column].i))
         ELSE Cat(FromBytes(u32_to_le_bytes(BLen(row[column].s))), row[column].s)

RECURSIVE SerializeFrom(_, _, _)
SerializeFrom(columns, row, k) ==
    IF k > Len(columns) THEN <<>>
    ELSE Cat(SerializeColumn(row, columns[k]), SerializeFrom(columns, row, k + 1))

\* Table::serialize_row
serialize_row(row) == SerializeFrom(Columns, row, 1)

\* Table::deserialize_value(buffer): a value, or the panic of an index or a
\* slice out of range
deserialize_value(buffer) ==
    IF BLen(buffer) >= 8
    THEN [st |-> "Ok", value |-> Integer(i64_from_le_bytes(BytesAt(buffer, 0, 8)))]
    ELSE IF BLen(buffer) < 4
    THEN [st |-> "Panic", value |-> Integer(I64(0))]
    ELSE LET b == BytesAt(buffer, 0, 4) IN
         IF b[4] >= 128 \/ 4 + u32_from_le_bytes(b) > BLen(buffer)
         THEN [st |-> "Panic", value |-> Integer(I64(0))]
         ELSE [st |-> "Ok",
               value |-> Text(from_utf8_lossy(
                            Slice(buffer, 4, 4 + u32_from_le_bytes(b))))]

\* row_slot's loop over the columns: value i is decoded from
\* &page[byte_offset + i * size_of::<Value>() ..]
DecodeColumn(page, byte_offset, k) ==
    LET value_offset == byte_offset + (k - 1) * SizeOfValue IN
    IF value_offset > BLen(page)
    THEN [st |-> "Panic", value |-> Integer(I64(0))]
    ELSE deserialize_value(Drop(page, value_offset))

\* the Row that row_slot builds from a page, or its panic
DecodeRow(page, byte_offset) ==
    LET vals == [k \in 1..Len(Columns) |-> DecodeColumn(page, byte_offset, k)] IN
    IF \E k \in 1..Len(Columns) : vals[k].st = "Panic"
    THEN [st |-> "Panic", row |-> <<>>]
    ELSE [st |-> "Some",
          row |-> [c \in {Columns[k] : k \in 1..Len(Columns)} |->
                     vals[CHOOSE k \in 1..Len(Columns) : Columns[k] = c].value]]

-----------------------------------------------------------------------------
(* Pager: the file, its cached length, and the resident pages.  pages is a *)
(* function on the page numbers whose slot is Some; every other slot of    *)
(* the TABLE_MAX_PAGES-long vector is None.                                *)

\* self.pages[page_num] = Some(page)
SetPage(pages, page_num, page) ==
    [p \in DOMAIN pages \cup {page_num} |->
        IF p = page_num THEN page ELSE pages[p]]

\* File::set_len
SetLen(f, n) == Resize(f, n)

\* (file_length as f64 / PAGE_SIZE as f64).ceil() as usize
NumPages(file_length) == (file_length + PAGE_SIZE - 1) \div PAGE_SIZE

\* Pager::get_page, the part that fills an empty slot: the page it builds,
\* or the UnexpectedEof error
LoadPage(pg, page_num) ==
    LET num_pages == NumPages(pg.file_length) IN
    IF page_num < num_pages
    THEN LET data == FileRead(pg.file, page_num * PAGE_SIZE, PAGE_SIZE)
             bytes_read == BLen(data)
             page == Cat(data, Zeros(PAGE_SIZE - bytes_read))
         IN  IF bytes_read < PAGE_SIZE /\ page_num = num_pages - 1
             THEN [st |-> "Ok", page |-> Resize(page, bytes_read)]
             ELSE IF bytes_read < PAGE_SIZE
             THEN [st |-> "Err", page |-> <<>>]
             ELSE [st |-> "Ok", page |-> page]
    ELSE [st |-> "Ok", page |-> Zeros(PAGE_SIZE)]

\* Pager::get_page that counts a page it initializes into file_length
get_page_GrowsLength(pg, page_num) ==
    IF page_num >= TABLE_MAX_PAGES
    THEN [st |-> "Err", pager |-> pg]
    ELSE IF page_num \in DOMAIN pg.pages
    THEN [st |-> "Ok", pager |-> pg]
    ELSE LET l == LoadPage(pg, page_num) IN
         IF l.st = "Err"
         THEN [st |-> "Err", pager |-> pg]
         ELSE [st |-> "Ok",
               pager |-> [pg EXCEPT
                            !.pages = SetPage(pg.pages, page_num, l.page),
                            !.file_length =
                                IF page_num >= NumPages(pg.file_length)
                                THEN (page_num + 1) * PAGE_SIZE
                                ELSE pg.file_length]]

\* Pager::get_page with > for >= in its test of the page index
get_page_OffByOne(pg, page_num) ==
    IF page_num > TABLE_MAX_PAGES
    THEN [st |-> "Err", pager |-> pg]
    ELSE IF page_num \in DOMAIN pg.pages
    THEN [st |-> "Ok", pager |-> pg]
    ELSE LET l == LoadPage(pg, page_num) IN
         IF l.st = "Err"
         THEN [st |-> "Err", pager |-> pg]
         ELSE [st |-> "Ok",
               pager |-> [pg EXCEPT !.pages = SetPage(pg.pages, page_num, l.page)]]

\* Pager::get_page: Ok with the page resident, or Err with the pager as it was
get_page(pg, page_num) ==
    IF page_num >= TABLE_MAX_PAGES
    THEN [st |-> "Err", pager |-> pg]
    ELSE IF page_num \in DOMAIN pg.pages
    THEN [st |-> "Ok", pager |-> pg]
    ELSE LET l == LoadPage(pg, page_num) IN
         IF l.st = "Err"
         THEN [st |-> "Err", pager |-> pg]
         ELSE [st |-> "Ok",
               pager |-> [pg EXCEPT !.pages = SetPage(pg.pages, page_num, l.page)]]

\* Pager::flush without its update of file_length
flush_KeepsLength(pg, page_num, size) ==
    IF page_num >= TABLE_MAX_PAGES
    THEN [st |-> "Panic", pager |-> pg]
    ELSE IF page_num \notin DOMAIN pg.pages
    THEN [st |-> "Ok", pager |-> pg]
    ELSE IF size > BLen(pg.pages[page_num])
    THEN [st |-> "Panic", pager |-> pg]
    ELSE [st |-> "Ok",
          pager |-> [pg EXCEPT !.file = FileWrite(pg.file, page_num * PAGE_SIZE,
                                                  Take(pg.pages[page_num], size))]]

\* Pager::flush.  self.pages[page_num] panics past the vector's end, and
\* &page[..size] panics when the buffer is shorter than size.
flush(pg, page_num, size) ==
    IF page_num >= TABLE_MAX_PAGES
    THEN [st |-> "Panic", pager |-> pg]
    ELSE IF page_num \notin DOMAIN pg.pages
    THEN [st |-> "Ok", pager |-> pg]
    ELSE IF size > BLen(pg.pages[page_num])
    THEN [st |-> "Panic", pager |-> pg]
    ELSE LET written == FileWrite(pg.file, page_num * PAGE_SIZE,
                                  Take(pg.pages[page_num], size))
             end_of_write == page_num * PAGE_SIZE + size
         IN  IF end_of_write > pg.file_length
             THEN [st |-> "Ok",
                   pager |-> [pg EXCEPT !.file = SetLen(written, end_of_write),
                                        !.file_length = end_of_write]]
             ELSE [st |-> "Ok", pager |-> [pg EXCEPT !.file = written]]

\* Pager::flush when the file system fails its seek: the ? returns the error
\* before a byte is written
flush_fails(pg, page_num, size) ==
    IF page_num >= TABLE_MAX_PAGES
    THEN [st |-> "Panic", pager |-> pg]
    ELSE IF page_num \notin DOMAIN pg.pages
    THEN [st |-> "Ok", pager |-> pg]
    ELSE [st |-> "Err", pager |-> pg]

\* Pager::new on a file with the given contents
Pager_new(f) == [file |-> f, pages |-> <<>>, file_length |-> BLen(f)]

-----------------------------------------------------------------------------
(* Table *)

\* Table::new
Table_new(f) ==
    [pager |-> Pager_new(f), num_rows |-> BLen(f) \div row_size(Columns)]

\* insert's page_num, for a row of serialized length size
InsertPageNum(num_rows, size) == (num_rows * size) \div PAGE_SIZE

\* insert's byte_offset, for a row of serialized length size <= PAGE_SIZE
InsertByteOffset(num_rows, size) == (num_rows % (PAGE_SIZE \div size)) * size

\* Table::insert that counts the row before it asks for the page
Table_insert_on_CountsFirst(t, row, disk_ok) ==
    LET size == BLen(serialize_row(row)) IN
    IF size = 0 \/ PAGE_SIZE \div size = 0
    THEN [st |-> "Panic", table |-> t, flushed |-> <<>>]
    ELSE
    LET page_num == InsertPageNum(t.num_rows, size)
        byte_offset == InsertByteOffset(t.num_rows, size)
        g == get_page(t.pager, page_num)
    IN  IF g.st = "Err"
        THEN [st |-> "Err", table |-> [t EXCEPT !.num_rows = t.num_rows + 1],
              flushed |-> <<>>]
        ELSE
        LET page == g.pager.pages[page_num]
            sized == IF byte_offset + size > BLen(page)
                     THEN Resize(page, byte_offset + size)
                     ELSE page
            copied == CopyInto(sized, byte_offset, serialize_row(row))
            pg == [g.pager EXCEPT !.pages = SetPage(g.pager.pages, page_num, copied)]
            f == IF disk_ok THEN flush(pg, page_num, byte_offset + size)
                 ELSE flush_fails(pg, page_num, byte_offset + size)
        IN  [st |-> f.st,
             table |-> [pager |-> f.pager, num_rows |-> t.num_rows + 1],
             flushed |-> <<page_num, byte_offset + size>>]

\* Table::insert, on a disk that takes the flush (disk_ok) or fails it.
\* PAGE_SIZE / row_size is 0 for a row longer than a page and the remainder
\* by it panics.
Table_insert_on(t, row, disk_ok) ==
    LET size == BLen(serialize_row(row)) IN
    IF size = 0 \/ PAGE_SIZE \div size = 0
    THEN [st |-> "Panic", table |-> t, flushed |-> <<>>]
    ELSE
    LET page_num == InsertPageNum(t.num_rows, size)
        byte_offset == InsertByteOffset(t.num_rows, size)
        g == get_page(t.pager, page_num)
    IN  IF g.st = "Err"
        THEN [st |-> "Err", table |-> t, flushed |-> <<>>]
        ELSE
        LET page == g.pager.pages[page_num]
            sized == IF byte_offset + size > BLen(page)
                     THEN Resize(page, byte_offset + size)
                     ELSE page
            copied == CopyInto(sized, byte_offset, serialize_row(row))
            pg == [g.pager EXCEPT !.pages = SetPage(g.pager.pages, page_num, copied)]
            f == IF disk_ok THEN flush(pg, page_num, byte_offset + size)
                 ELSE flush_fails(pg, page_num, byte_offset + size)
        IN  [st |-> f.st,
             table |-> [pager |-> f.pager, num_rows |-> t.num_rows + 1],
             flushed |-> <<page_num, byte_offset + size>>]

\* Table::insert on a disk that works
Table_insert(t, row) == Table_insert_on(t, row, TRUE)

\* row_slot's page_num
SlotPageNum(row_num) == (row_num * row_size(Columns)) \div PAGE_SIZE

\* row_slot's byte_offset
SlotByteOffset(row_num) ==
    (row_num % (PAGE_SIZE \div row_size(Columns))) * row_size(Columns)

\* Table::row_slot: Some(row), None, the error of get_page, or a panic
Table_row_slot(t, row_num) ==
    LET page_num == SlotPageNum(row_num)
        byte_offset == SlotByteOffset(row_num)
        g == get_page(t.pager, page_num)
    IN  IF g.st = "Err"
        THEN [st |-> "Err", row |-> <<>>, table |-> t]
        ELSE
        LET page == g.pager.pages[page_num]
            tab == [t EXCEPT !.pager = g.pager]
        IN  IF byte_offset >= BLen(page)
            THEN [st |-> "None", row |-> <<>>, table |-> tab]
            ELSE LET d == DecodeRow(page, byte_offset) IN
                 [st |-> d.st, row |-> d.row, table |-> tab]

RECURSIVE CloseFullPages(_, _, _, _)
\* close's loop over 0..full_pages, from page i on: the pages whose slot is
\* None are passed over, and self.pager.pages[i] panics at the vector's end.
\* flushed collects the <<page_num, size>> of the flushes issued.
CloseFullPages(pg, i, full_pages, flushed) ==
    LET resident == {p \in DOMAIN pg.pages : p >= i /\ p < full_pages} IN
    IF resident = {}
    THEN [st |-> IF full_pages > TABLE_MAX_PAGES THEN "Panic" ELSE "Ok",
          pager |-> pg, flushed |-> flushed]
    ELSE LET next == CHOOSE p \in resident : \A q \in resident : p <= q
             f == flush(pg, next, PAGE_SIZE)
             issued == Append(flushed, <<next, PAGE_SIZE>>)
         IN  IF f.st = "Panic"
             THEN [st |-> "Panic", pager |-> f.pager, flushed |-> issued]
             ELSE CloseFullPages(f.pager, next + 1, full_pages, issued)

\* Table::close.  self.pager.pages[page_num] panics past the vector's end.
Table_close(t) ==
    LET rs == row_size(Columns)
        full_pages == (t.num_rows * rs) \div PAGE_SIZE
        full == CloseFullPages(t.pager, 0, full_pages, <<>>)
        additional_rows == t.num_rows % (PAGE_SIZE \div rs)
    IN  IF full.st = "Panic"
        THEN [st |-> "Panic", table |-> [t EXCEPT !.pager = full.pager],
              flushed |-> full.flushed]
        ELSE IF additional_rows > 0
        THEN IF full_pages >= TABLE_MAX_PAGES
             THEN [st |-> "Panic", table |-> [t EXCEPT !.pager = full.pager],
                   flushed |-> full.flushed]
             ELSE IF full_pages \notin DOMAIN full.pager.pages
             THEN [st |-> "Ok", table |-> [t EXCEPT !.pager = full.pager],
                   flushed |-> full.flushed]
             ELSE LET f == flush(full.pager, full_pages, additional_rows * rs) IN
                  [st |-> f.st, table |-> [t EXCEPT !.pager = f.pager],
                   flushed |-> Append(full.flushed,
                                      <<full_pages, additional_rows * rs>>)]
        ELSE [st |-> "Ok", table |-> [t EXCEPT !.pager = full.pager],
              flushed |-> full.flushed]

-----------------------------------------------------------------------------
(* Cursor *)

\* Cursor::table_start
Cursor_table_start(num_rows) ==
    [row_num |-> 0, end_of_table |-> (num_rows = 0)]

\* Cursor::advance with > for >= in its test for the end
Cursor_advance_LateEnd(c, num_rows) ==
    [row_num |-> c.row_num + 1,
     end_of_table |-> IF c.row_num + 1 > num_rows THEN TRUE ELSE c.end_of_table]

\* Cursor::advance
Cursor_advance(c, num_rows) ==
    [row_num |-> c.row_num + 1,
     end_of_table |-> IF c.row_num + 1 >= num_rows THEN TRUE ELSE c.end_of_table]

\* Cursor::value
Cursor_value(c, t) ==
    IF c.end_of_table
    THEN [st |-> "None", row |-> <<>>, table |-> t]
    ELSE Table_row_slot(t, c.row_num)

-----------------------------------------------------------------------------
(* Inputs *)

\* the most inserts of one behaviour
MaxInserts == 2

\* the most runs of the program (Table::new) on the one file
MaxOpens == 2

\* how far past num_rows a row index or a cursor is driven
MaxBeyond == 1

\* the most flushes the file system fails
MaxFaults == 1

\* the text slots of the schema [id: integer, username: text(32), email: text(255)]
UsernameMax == 32

EmailMax == 255

Ascii(bytes) == Text(FromBytes(bytes))

RowAnn ==
    [id |-> Integer(I64(1)),
     username |-> Ascii(<<97, 110, 110>>),
     email |-> Ascii(<<97, 110, 110, 64, 120, 46, 99, 111, 109>>)]

\* a username of exactly UsernameMax bytes
RowWide ==
    [id |-> Integer(I64(2)),
     username |-> Text(Rep(117, UsernameMax)),
     email |-> Text(Rep(101, 30))]

\* a username one byte longer than its slot
RowOver ==
    [id |-> Integer(I64(3)),
     username |-> Text(Rep(117, UsernameMax + 1)),
     email |-> Ascii(<<101>>)]

\* the longest row of the schema: both texts fill their slots (303 bytes)
RowFull ==
    [id |-> Integer(I64(6)),
     username |-> Text(Rep(119, UsernameMax)),
     email |-> Text(Rep(102, EmailMax))]

\* values for id only; the insert statement names no other column
RowIdOnly == [id |-> Integer(I64(-1))]

\* an email of 2080 bytes: a row of 2099 bytes
RowHuge ==
    [id |-> Integer(I64(4)),
     username |-> Ascii(<<104>>),
     email |-> Text(Rep(120, 2080))]

\* a row longer than a page
RowGiant ==
    [id |-> Integer(I64(5)),
     username |-> Ascii(<<103>>),
     email |-> Text(Rep(121, PAGE_SIZE))]

Rows == {RowAnn, RowWide, RowFull, RowOver, RowIdOnly, RowHuge, RowGiant}

\* a row of the schema: every column an integer or a text that fits its slot
Conforms(row) ==
    /\ DOMAIN row = {Columns[k] : k \in 1..Len(Columns)}
    /\ row["id"].tag = "Integer"
    /\ row["username"].tag = "Text" => BLen(row["username"].s) <= UsernameMax
    /\ row["email"].tag = "Text" => BLen(row["email"].s) <= EmailMax

-----------------------------------------------------------------------------
(* State *)

VARIABLES
    file,         \* the bytes of the database file on disk
    file_length,  \* Pager.file_length
    pages,        \* Pager.pages: the resident pages
    num_rows,     \* Table.num_rows
    proc,         \* "open": the program runs; "exited": after .exit;
                  \* "panicked": the program ended in a panic
    cursor,       \* the live Cursor, and who drives it
    ret,          \* the last call and what it returned
    out,          \* the rows the last select has printed
    inserted,     \* the rows whose insert returned Ok, in order
    opens,        \* how often the program has opened the file
    sessInserts,  \* the inserts that returned Ok since the last open
    clean,        \* every earlier run ended by .exit with close returning Ok
    faults,       \* the flushes the file system has failed
    codec         \* the row codec applied to one row (SpecCodec)

vars == <<file, file_length, pages, num_rows, proc, cursor, ret, out,
          inserted, opens, sessInserts, clean, faults, codec>>

\* the Table of the running program
Tab ==
    [pager |-> [file |-> file, pages |-> pages, file_length |-> file_length],
     num_rows |-> num_rows]

SetTab(t) ==
    /\ file' = t.pager.file
    /\ file_length' = t.pager.file_length
    /\ pages' = t.pager.pages
    /\ num_rows' = t.num_rows

IsTab(t) ==
    /\ file = t.pager.file
    /\ file_length = t.pager.file_length
    /\ pages = t.pager.pages
    /\ num_rows = t.num_rows

NoCursor == [mode |-> "none", pc |-> "none", row_num |-> 0, end_of_table |-> FALSE]

\* flushed: the <<page_num, size>> of the flush an insert issued; for a
\* close, the sequence of the <<page_num, size>> of the flushes it issued
Ret(op, st, arg, row) ==
    [op |-> op, st |-> st, arg |-> arg, row |-> row, flushed |-> <<>>]

CodecIdle == [pc |-> "idle", row |-> <<>>, bytes |-> <<>>, res |-> <<>>]

\* main(): Table::new on a file that did not exist
Init ==
    /\ IsTab(Table_new(<<>>))
    /\ proc = "open"
    /\ cursor = NoCursor
    /\ ret = Ret("open", "Ok", 0, <<>>)
    /\ out = <<>>
    /\ inserted = <<>>
    /\ opens = 1
    /\ sessInserts = 0
    /\ clean = TRUE
    /\ faults = 0
    /\ codec = CodecIdle

-----------------------------------------------------------------------------
(* Operations *)

Ghost == <<inserted, opens, sessInserts, clean, faults>>

\* The program is at its prompt: it runs and no cursor borrows the table.
AtPrompt == proc = "open" /\ cursor.mode = "none"

\* Table::insert on the running program's table, and what the caller sees
InsertCall(row) ==
    /\ AtPrompt
    /\ LET r == Table_insert(Tab, row) IN
       /\ SetTab(r.table)
       /\ proc' = IF r.st = "Panic" THEN "panicked" ELSE proc
       /\ ret' = [Ret("insert", r.st, num_rows, row) EXCEPT !.flushed = r.flushed]
       /\ sessInserts' = IF r.st = "Ok" THEN sessInserts + 1 ELSE sessInserts
    /\ UNCHANGED <<cursor, out, opens, clean, faults, codec>>

\* execute_statement, StatementType::Insert: the row is built from the
\* statement's columns and values and handed to Table::insert.
Insert(row) ==
    /\ Len(inserted) < MaxInserts
    /\ InsertCall(row)
    /\ inserted' = IF ret'.st = "Ok" THEN Append(inserted, row) ELSE inserted

\* Table::row_slot called with a row index
RowSlot(row_num) ==
    /\ AtPrompt
    /\ LET r == Table_row_slot(Tab, row_num) IN
       /\ SetTab(r.table)
       /\ proc' = IF r.st = "Panic" THEN "panicked" ELSE proc
       /\ ret' = Ret("row_slot", r.st, row_num, r.row)
    /\ UNCHANGED <<cursor, out, Ghost, codec>>

\* do_meta_command(".exit"): Table::close, then the process exits
Exit ==
    /\ AtPrompt
    /\ LET r == Table_close(Tab) IN
       /\ SetTab(r.table)
       /\ proc' = IF r.st = "Panic" THEN "panicked" ELSE "exited"
       /\ ret' = [Ret("close", r.st, 0, <<>>) EXCEPT !.flushed = r.flushed]
    /\ UNCHANGED <<cursor, out, Ghost, codec>>

\* the program is started again on the same file: main() calls Table::new
Open ==
    /\ proc # "open"
    /\ opens < MaxOpens
    /\ SetTab(Table_new(file))
    /\ proc' = "open"
    /\ cursor' = NoCursor
    /\ ret' = Ret("open", "Ok", 0, <<>>)
    /\ out' = <<>>
    /\ opens' = opens + 1
    /\ sessInserts' = 0
    /\ clean' = (clean /\ proc = "exited")
    /\ UNCHANGED <<inserted, faults, codec>>

\* execute_statement, StatementType::Select: Cursor::table_start
SelectStart ==
    /\ AtPrompt
    /\ cursor' = [mode |-> "select", pc |-> "test"] @@ Cursor_table_start(num_rows)
    /\ ret' = Ret("table_start", "Ok", 0, <<>>)
    /\ out' = <<>>
    /\ UNCHANGED <<file, file_length, pages, num_rows, proc, Ghost, codec>>

\* the loop body's cursor.value()? and print_row
SelectValue ==
    /\ proc = "open" /\ cursor.mode = "select" /\ cursor.pc = "test"
    /\ ~cursor.end_of_table
    /\ LET r == Cursor_value(cursor, Tab) IN
       /\ SetTab(r.table)
       /\ proc' = IF r.st = "Panic" THEN "panicked" ELSE proc
       /\ ret' = Ret("value", r.st, cursor.row_num, r.row)
       /\ out' = IF r.st = "Some" THEN Append(out, r.row) ELSE out
       /\ cursor' = IF r.st = "Err" THEN NoCursor
                    ELSE [cursor EXCEPT !.pc = "advance"]
    /\ UNCHANGED <<Ghost, codec>>

\* the loop body's cursor.advance()?
SelectAdvance ==
    /\ proc = "open" /\ cursor.mode = "select" /\ cursor.pc = "advance"
    /\ cursor' = [mode |-> "select", pc |-> "test"] @@ Cursor_advance(cursor, num_rows)
    /\ ret' = Ret("advance", "Ok", cursor.row_num, <<>>)
    /\ UNCHANGED <<file, file_length, pages, num_rows, proc, out, Ghost, codec>>

\* the loop ends: println!("Executed.") and the cursor is dropped
SelectDone ==
    /\ proc = "open" /\ cursor.mode = "select" /\ cursor.pc = "test"
    /\ cursor.end_of_table
    /\ cursor' = NoCursor
    /\ ret' = Ret("select", "Ok", cursor.row_num, <<>>)
    /\ UNCHANGED <<file, file_length, pages, num_rows, proc, out, Ghost, codec>>

\* Cursor::table_start called on the table
CursorStart ==
    /\ AtPrompt
    /\ cursor' = [mode |-> "api", pc |-> "none"] @@ Cursor_table_start(num_rows)
    /\ ret' = Ret("table_start", "Ok", 0, <<>>)
    /\ UNCHANGED <<file, file_length, pages, num_rows, proc, out, Ghost, codec>>

\* Cursor::advance called on the cursor, at the end of the table too
CursorAdvance ==
    /\ proc = "open" /\ cursor.mode = "api"
    /\ cursor.row_num < num_rows + MaxBeyond
    /\ cursor' = [mode |-> "api", pc |-> "none"] @@ Cursor_advance(cursor, num_rows)
    /\ ret' = Ret("advance", "Ok", cursor.row_num, <<>>)
    /\ UNCHANGED <<file, file_length, pages, num_rows, proc, out, Ghost, codec>>

\* Cursor::value called on the cursor
CursorValue ==
    /\ proc = "open" /\ cursor.mode = "api"
    /\ LET r == Cursor_value(cursor, Tab) IN
       /\ SetTab(r.table)
       /\ proc' = IF r.st = "Panic" THEN "panicked" ELSE proc
       /\ ret' = Ret("value", r.st, cursor.row_num, r.row)
    /\ UNCHANGED <<cursor, out, Ghost, codec>>

\* the cursor goes out of scope
CursorDrop ==
    /\ proc = "open" /\ cursor.mode = "api"
    /\ cursor' = NoCursor
    /\ ret' = Ret("drop", "Ok", cursor.row_num, <<>>)
    /\ UNCHANGED <<file, file_length, pages, num_rows, proc, out, Ghost, codec>>

\* the row indices row_slot is called with: the first row, the last row, and
\* the indices from num_rows on
RowIndices ==
    {i \in {0, num_rows - 1} : i >= 0} \cup (num_rows..(num_rows + MaxBeyond))

Next ==
    \/ \E row \in Rows : Insert(row)
    \/ \E row_num \in RowIndices : RowSlot(row_num)
    \/ Exit
    \/ Open
    \/ SelectStart
    \/ SelectValue
    \/ SelectAdvance
    \/ SelectDone
    \/ CursorStart
    \/ CursorAdvance
    \/ CursorValue
    \/ CursorDrop

Spec == Init /\ [][Next]_vars

-----------------------------------------------------------------------------
(* Filling the table: one row, inserted again and again into the table     *)
(* opened on an empty file, up to one insert past the claimed capacity.    *)

\* the row ceiling of the schema: rows_per_page * TABLE_MAX_PAGES
Capacity == (PAGE_SIZE \div row_size(Columns)) * TABLE_MAX_PAGES

\* how many inserts past Capacity are tried
MaxPastCapacity == 1

\* a row of the schema with empty texts
RowEmpty ==
    [id |-> Integer(I64(0)), username |-> Text(<<>>), email |-> Text(<<>>)]

FillRows == {RowEmpty}

FillInsert(row) ==
    /\ sessInserts < Capacity + MaxPastCapacity
    /\ ret.op = "insert" => (ret.st = "Ok" /\ ret.row = row)
    /\ InsertCall(row)
    /\ UNCHANGED inserted

NextFill == \E row \in FillRows : FillInsert(row)

SpecFill == Init /\ [][NextFill]_vars

-----------------------------------------------------------------------------
(* The row codec on its own: a row of the schema is serialized, and the    *)
(* bytes, at the start of a fresh page, are decoded the way row_slot       *)
(* decodes a slot.                                                         *)

CodecIds == {Integer(I64(0)), Integer(I64(1)), Integer(I64(-1)), Integer(I64(70000))}

CodecNames ==
    {Text(<<>>), Ascii(<<97, 110, 110>>), Text(Rep(117, UsernameMax)),
     Integer(I64(0)), Integer(I64(7))}

CodecEmails ==
    {Text(<<>>), Ascii(<<97, 110, 110, 64, 120, 46, 99, 111, 109>>),
     Text(Rep(101, EmailMax)), Integer(I64(0)), Integer(I64(-2))}

CodecRows ==
    {[id |-> i, username |-> u, email |-> e] :
        i \in CodecIds, u \in CodecNames, e \in CodecEmails}

InitCodec ==
    /\ IsTab(Table_new(<<>>))
    /\ proc = "open"
    /\ cursor = NoCursor
    /\ ret = Ret("open", "Ok", 0, <<>>)
    /\ out = <<>>
    /\ inserted = <<>>
    /\ opens = 1
    /\ sessInserts = 0
    /\ clean = TRUE
    /\ faults = 0
    /\ \E row \in CodecRows :
          codec = [pc |-> "row", row |-> row, bytes |-> <<>>, res |-> <<>>]

\* serialize_row(&row)
CodecEncode ==
    /\ codec.pc = "row"
    /\ codec' = [codec EXCEPT !.pc = "bytes", !.bytes = serialize_row(codec.row)]
    /\ UNCHANGED <<file, file_length, pages, num_rows, proc, cursor, ret, out, Ghost>>

\* row_slot's decoding of the slot at the start of a zeroed page that holds
\* the bytes
CodecDecode ==
    /\ codec.pc = "bytes"
    /\ codec' = [codec EXCEPT
                   !.pc = "done",
                   !.res = DecodeRow(CopyInto(Zeros(PAGE_SIZE), 0, codec.bytes), 0)]
    /\ UNCHANGED <<file, file_length, pages, num_rows, proc, cursor, ret, out, Ghost>>

NextCodec == CodecEncode \/ CodecDecode

SpecCodec == InitCodec /\ [][NextCodec]_vars

-----------------------------------------------------------------------------
(* The program started on a file it finds: Table::new takes the file as it *)
(* is, whatever its length, the pager is asked for pages by index, and the *)
(* file system may fail the flush of an insert.                            *)

\* the lengths of the files found: none, a part of a row's page, 57 rows,
\* and the TABLE_MAX_PAGES pages that are the most the pager writes
AnyLengths ==
    {0, 78, 57 * row_size(Columns), TABLE_MAX_PAGES * PAGE_SIZE}

AnyFiles == {Rep(1, n) : n \in AnyLengths}

AnyRows == {RowAnn, RowWide}

\* the page indices asked of the pager, around both ends of its vector
PageIndices ==
    {0, 1, TABLE_MAX_PAGES - 1, TABLE_MAX_PAGES, TABLE_MAX_PAGES + 1}

\* main(): Table::new on the file found
InitAny ==
    /\ \E f \in AnyFiles : IsTab(Table_new(f))
    /\ proc = "open"
    /\ cursor = NoCursor
    /\ ret = Ret("open", "Ok", 0, <<>>)
    /\ out = <<>>
    /\ inserted = <<>>
    /\ opens = 1
    /\ sessInserts = 0
    /\ clean = TRUE
    /\ faults = 0
    /\ codec = CodecIdle

\* Pager::get_page called with a page index
GetPage(page_num) ==
    /\ AtPrompt
    /\ LET g == get_page(Tab.pager, page_num) IN
       /\ SetTab([Tab EXCEPT !.pager = g.pager])
       /\ ret' = Ret("get_page", g.st, page_num, <<>>)
    /\ UNCHANGED <<proc, cursor, out, Ghost, codec>>

\* Table::insert while the file system fails the seek of its flush
InsertDiskFails(row) ==
    /\ AtPrompt
    /\ faults < MaxFaults
    /\ LET r == Table_insert_on(Tab, row, FALSE) IN
       /\ SetTab(r.table)
       /\ proc' = IF r.st = "Panic" THEN "panicked" ELSE proc
       /\ ret' = [Ret("insert", r.st, num_rows, row) EXCEPT !.flushed = r.flushed]
       /\ faults' = IF r.flushed = <<>> THEN faults ELSE faults + 1
    /\ UNCHANGED <<cursor, out, inserted, opens, sessInserts, clean, codec>>

NextAny ==
    \/ \E page_num \in PageIndices : GetPage(page_num)
    \/ \E row \in AnyRows : Insert(row)
    \/ \E row \in AnyRows : InsertDiskFails(row)
    \/ \E row_num \in RowIndices : RowSlot(row_num)
    \/ Exit

SpecAny == InitAny /\ [][NextAny]_vars

-----------------------------------------------------------------------------
(* Claims *)

RowsPerPage == PAGE_SIZE \div row_size(Columns)

AllConform == \A k \in 1..Len(inserted) : Conforms(inserted[k])

\* The program was run on the empty file, ended by .exit with close returning
\* Ok, and was started again; nothing has been inserted since.
Reopened == opens = 2 /\ clean /\ proc = "open" /\ sessInserts = 0

\* C1. Persistence: after N successful inserts of schema rows into a table
\* opened on an empty file, a close and a reopen, a full cursor scan yields
\* exactly the N inserted rows, with the same values, in insertion order.
C1_Persistence ==
    (Reopened /\ AllConform /\ ret.op = "select") => out = inserted

\* C2. Codec round trip: decoding the bytes serialize_row produces for a row
\* of the schema, the way row_slot decodes a slot, gives back that row.
C2_RoundTrip ==
    codec.pc = "done" => (codec.res.st = "Some" /\ codec.res.row = codec.row)

\* C3. Capacity: from an empty table exactly RowsPerPage * TABLE_MAX_PAGES
\* inserts succeed; the insert after them is rejected, none is rejected
\* earlier and none is accepted later.  (ret.arg is the number of rows the
\* table held when the insert was called.)
C3_Capacity ==
    ret.op = "insert" =>
        IF ret.arg < Capacity THEN ret.st = "Ok" ELSE ret.st = "Err"

\* C4. Boundary of row lookup: row_slot(index) is None for every index >=
\* num_rows, and row_slot(num_rows - 1) is the most recently inserted row.
C4_RowSlotBoundary ==
    ret.op = "row_slot" =>
        /\ ret.arg >= num_rows => ret.st = "None"
        /\ (sessInserts > 0 /\ ret.arg = num_rows - 1) =>
              (ret.st = "Some" /\ ret.row = inserted[Len(inserted)])

\* C5. Partial last page: after N inserts of schema rows into an empty table,
\* N no multiple of RowsPerPage, and a close, the file is exactly
\* (N div RowsPerPage) * PAGE_SIZE + (N mod RowsPerPage) * row_size bytes long.
C5_PartialLastPage ==
    (opens = 1 /\ ret.op = "close" /\ ret.st = "Ok" /\ AllConform
        /\ Len(inserted) % RowsPerPage # 0)
    => BLen(file) = (Len(inserted) \div RowsPerPage) * PAGE_SIZE
                    + (Len(inserted) % RowsPerPage) * row_size(Columns)

TextFits(row, column, max) ==
    (column \in DOMAIN row /\ row[column].tag = "Text") => BLen(row[column].s) <= max

TextsFit(row) ==
    TextFits(row, "username", UsernameMax) /\ TextFits(row, "email", EmailMax)

\* C6. Oversized text is rejected: an insert with a text of exactly the slot's
\* maximum length succeeds; an insert with a text one byte longer fails,
\* writes nothing to the file and leaves num_rows unchanged.
C6_OversizedRejected ==
    [][ret'.op = "insert" =>
          /\ ret'.row = RowWide => ret'.st = "Ok"
          /\ ~TextsFit(ret'.row) =>
                (ret'.st = "Err" /\ file' = file /\ num_rows' = num_rows)]_vars

\* C7. Scan order: a select over a table of num_rows = n rows yields the row
\* of every index 0, ..., n-1 exactly once, in ascending index order.  (Stated
\* for tables that hold schema rows and whose earlier runs ended by .exit.)
C7_ScanOrder ==
    (ret.op = "select" /\ clean /\ AllConform) =>
        /\ Len(out) = num_rows
        /\ \A k \in 1..Len(out) :
              LET r == Table_row_slot(Tab, k - 1) IN r.st = "Some" /\ out[k] = r.row

CursorLive == cursor.mode # "none"

\* C8. Cursor state machine: a cursor from table_start is at end iff
\* num_rows = 0 and else at row 0; each advance adds one to row_num; the
\* cursor is at end exactly when row_num >= num_rows; row_num never
\* decreases and a cursor at end stays at end.
C8_CursorMachine ==
    /\ [](ret.op = "table_start" =>
            (cursor.row_num = 0 /\ (cursor.end_of_table <=> num_rows = 0)))
    /\ [](CursorLive => (cursor.end_of_table <=> cursor.row_num >= num_rows))
    /\ [][ret'.op = "advance" => cursor'.row_num = cursor.row_num + 1]_vars
    /\ [][(CursorLive /\ CursorLive') =>
            /\ cursor'.row_num >= cursor.row_num
            /\ cursor.end_of_table => cursor'.end_of_table]_vars

\* a cursor driven past the last row of a table that has rows
C8_Witness ==
    /\ cursor.mode = "api" /\ ret.op = "advance"
    /\ num_rows > 0 /\ cursor.row_num > num_rows /\ cursor.end_of_table

\* C9. Cursor value: value() is None at the end of the table, and Some row,
\* never None, while the cursor is active (row_num < num_rows).  (Stated for
\* tables that hold schema rows and whose earlier runs ended by .exit.)
C9_CursorValue ==
    (ret.op = "value" /\ CursorLive /\ clean /\ AllConform) =>
        IF cursor.end_of_table THEN ret.st = "None" ELSE ret.st = "Some"

\* the file position of the slot an insert of row wrote, the table holding n
\* rows before
SlotPos(n, row) ==
    InsertPageNum(n, BLen(serialize_row(row))) * PAGE_SIZE
    + InsertByteOffset(n, BLen(serialize_row(row)))

\* what C10 says of every insert that returns Ok, but for its flush
InsertIsDurable ==
    LET size == BLen(serialize_row(ret'.row))
        pos == SlotPos(num_rows, ret'.row)
    IN  /\ num_rows' = num_rows + 1
        /\ file_length' >= pos + size
        /\ BLen(file') >= pos + size
        /\ Slice(file', pos, pos + size) = serialize_row(ret'.row)

\* C10 as claimed. Per-insert durability: when an insert returns Ok, num_rows
\* has grown by one and the file holds the encoded row at the position of its
\* slot, file_length reaching the slot's end; the flush insert issues covers
\* exactly the bytes of the row just written.
C10_FlushExactlyRow ==
    [][(ret'.op = "insert" /\ ret'.st = "Ok") =>
          /\ InsertIsDurable
          /\ ret'.flushed[1] * PAGE_SIZE = SlotPos(num_rows, ret'.row)
          /\ ret'.flushed[2] = BLen(serialize_row(ret'.row))]_vars

\* C10 as amended. Per-insert durability, the flush covering the page from
\* its first byte through the end of the row just written.
C10_Durability ==
    [][(ret'.op = "insert" /\ ret'.st = "Ok") =>
          /\ InsertIsDurable
          /\ ret'.flushed[1] = InsertPageNum(num_rows, BLen(serialize_row(ret'.row)))
          /\ ret'.flushed[1] * PAGE_SIZE + ret'.flushed[2]
                = SlotPos(num_rows, ret'.row) + BLen(serialize_row(ret'.row))]_vars

\* an insert returned Ok for a slot that is not the first of its page
C10_Witness ==
    /\ ret.op = "insert" /\ ret.st = "Ok"
    /\ ret.flushed[2] > BLen(serialize_row(ret.row))

\* the pages close counts as full, and the rows it counts on the page after
FullPages == (num_rows * row_size(Columns)) \div PAGE_SIZE

AdditionalRows == num_rows % RowsPerPage

\* the bytes close is to write of page p: a full page, or the rows of the
\* final partial page
CloseSize(p) ==
    IF p < FullPages THEN PAGE_SIZE ELSE AdditionalRows * row_size(Columns)

\* C11. Close flushes every resident page: after close has returned, every
\* resident page is a full page or the final partial page, close flushed it
\* (a full page at PAGE_SIZE, the partial page at its rows' bytes) and the
\* file holds those bytes of the buffer; no page that is not resident was
\* written.
C11_CloseFlushesResident ==
    (ret.op = "close" /\ ret.st = "Ok") =>
        /\ \A p \in DOMAIN pages :
              /\ p < FullPages \/ (p = FullPages /\ AdditionalRows > 0)
              /\ \E k \in 1..Len(ret.flushed) : ret.flushed[k] = <<p, CloseSize(p)>>
              /\ BLen(file) >= p * PAGE_SIZE + CloseSize(p)
              /\ Slice(file, p * PAGE_SIZE, p * PAGE_SIZE + CloseSize(p))
                    = Take(pages[p], CloseSize(p))
        /\ \A k \in 1..Len(ret.flushed) : ret.flushed[k][1] \in DOMAIN pages

\* C12. Row count across reopen: after N successful inserts into the table
\* opened on an empty file and a close, the row count Table::new derives from
\* the file is N.
C12_RowCountAcrossReopen ==
    (ret.op = "open" /\ opens = 2 /\ clean /\ AllConform) =>
        num_rows = Len(inserted)

C14_ConstantRowSize ==
    (codec.pc = "bytes" /\ Conforms(codec.row)) =>
        BLen(codec.bytes) = row_size(Columns)

\* C15. Row-to-slot mapping: for the row index i that a row_slot or a
\* successful insert addressed, with the row size rs it used, the page index
\* is (i * rs) div PAGE_SIZE, the byte offset is (i * rs) mod PAGE_SIZE, and
\* the slot ends inside the page.
C15_RowToSlot ==
    /\ ret.op = "row_slot" =>
          /\ SlotPageNum(ret.arg) = (ret.arg * row_size(Columns)) \div PAGE_SIZE
          /\ SlotByteOffset(ret.arg) = (ret.arg * row_size(Columns)) % PAGE_SIZE
          /\ SlotByteOffset(ret.arg) + row_size(Columns) <= PAGE_SIZE
    /\ (ret.op = "insert" /\ ret.st = "Ok") =>
          LET rs == BLen(serialize_row(ret.row)) IN
          /\ ret.flushed[1] = (ret.arg * rs) \div PAGE_SIZE
          /\ ret.flushed[2] - rs = (ret.arg * rs) % PAGE_SIZE
          /\ ret.flushed[2] <= PAGE_SIZE

\* the table and the pager are as they were before the step
TableUnchanged ==
    /\ num_rows' = num_rows
    /\ pages' = pages
    /\ file' = file
    /\ file_length' = file_length

ReadOps == {"row_slot", "table_start", "advance", "value", "select"}

\* C17. Reads do not change persisted state: row_slot, Cursor::table_start,
\* Cursor::advance, Cursor::value and a whole select leave num_rows, the file
\* and file_length as they were; of the pager they change only which pages
\* are resident, the pages already resident keeping their bytes.
C17_ReadsKeepPersisted ==
    [][ret'.op \in ReadOps =>
          /\ num_rows' = num_rows
          /\ file' = file
          /\ file_length' = file_length
          /\ \A p \in DOMAIN pages : p \in DOMAIN pages' /\ pages'[p] = pages[p]]_vars

\* after a reopen and before any insert, a cursor's value() has returned a
\* row of the file, a read having made its page resident
C17_Witness ==
    /\ ret.op = "value" /\ ret.st = "Some"
    /\ opens = 2 /\ sessInserts = 0 /\ num_rows > 0
    /\ 0 \in DOMAIN pages

\* the place in the file where insert stored the k-th inserted row of the
\* table opened on an empty file
StoredAt(k) == SlotPos(k - 1, inserted[k])

\* C18. Insert never overwrites an existing row: after any sequence of
\* successful inserts of schema rows into the table opened on an empty file,
\* the file still holds, for every inserted row, the bytes written when the
\* row was inserted, at the place they were written.
C18_NoOverwrite ==
    (opens = 1 /\ proc = "open" /\ AllConform) =>
        \A k \in 1..Len(inserted) :
            /\ BLen(file) >= StoredAt(k) + BLen(serialize_row(inserted[k]))
            /\ Slice(file, StoredAt(k),
                     StoredAt(k) + BLen(serialize_row(inserted[k])))
                  = serialize_row(inserted[k])

\* C19. Flush sizes stay inside the buffer: every flush(page, size) that an
\* insert or a close has issued on a resident page has size at most the
\* length of the page's buffer, the pages loaded truncated included (every
\* earlier run having ended by .exit, and all rows being rows of the schema).
C19_FlushInsideBuffer ==
    (clean /\ AllConform) =>
        /\ (ret.op = "insert" /\ ret.flushed # <<>>) =>
              ret.flushed[2] <= BLen(pages[ret.flushed[1]])
        /\ ret.op = "close" =>
              \A k \in 1..Len(ret.flushed) :
                  ret.flushed[k][2] <= BLen(pages[ret.flushed[k][1]])

\* C20. All stored rows stay inside the pager's page range: the page index
\* that close and row_slot compute for the table's end,
\* (num_rows * row_size) div PAGE_SIZE, is below TABLE_MAX_PAGES, or equal to
\* it with no partial page; so close does not end in a panic and row_slot of
\* the last row is not refused by get_page.
C20_RowsInsidePageRange ==
    /\ \/ FullPages < TABLE_MAX_PAGES
       \/ (FullPages = TABLE_MAX_PAGES /\ AdditionalRows = 0)
    /\ ret.op = "close" => ret.st # "Panic"
    /\ (ret.op = "row_slot" /\ ret.arg < num_rows) => ret.st # "Err"

====
